---- MODULE Spec2Model ----
(***************************************************************************)
(* FAQ conversion scripts: the two spreadsheet extractors                  *)
(* (parse_excel_faq.py, parse_excel_faq_cbre.py), the SQL generator        *)
(* (generate_sql_inserts.py) and the JS string escaping of                 *)
(* generate_quick_questions.py.                                            *)
(*                                                                         *)
(* Text is a sequence of one-character strings, so that strip, lower,      *)
(* equality, substring containment and replace are computed as Python      *)
(* computes them.  A spreadsheet cell is NaN, a str or an int.             *)
(***************************************************************************)
EXTENDS Integers, Sequences, FiniteSets, TLC

VARIABLES
    script,           \* which script is running
    pc,               \* position in the script
    rows,             \* the rows of df that iterrows() has yielded so far
    faq_data,         \* the dict, in insertion order: <<[name, items], ...>>
    current_section,  \* None or the open section's name
    prov,             \* history: for each dict entry, the row index of each item
    out,              \* what the script has printed
    json_file,        \* the JSON output file: NotWritten or the dumped dict
    exit_code,        \* the process's exit status once it has ended
    sql_statements,   \* generate_sql_inserts: the statement list
    sql_file,         \* insert_faq_knowledge.sql: NotWritten or its statements
    safe_file,        \* insert_faq_knowledge_safe.sql
    jsx_content       \* generate_quick_questions_jsx: the emitted entries

vars == << script, pc, rows, faq_data, current_section, prov, out, json_file,
           exit_code, sql_statements, sql_file, safe_file, jsx_content >>

----------------------------------------------------------------------------
(* Bounds *)

\* the longest grid (number of rows) the extractors are run on
MaxRows == 3
\* the longest text escape_js_string is applied to
MaxLen == 3

----------------------------------------------------------------------------
(* Python text operations on sequences of characters *)

Whitespace == {" ", "\n"}

Digits == <<"0", "1", "2", "3", "4", "5", "6", "7", "8", "9">>

Upper == <<"A", "B", "C", "D", "E", "F", "G", "H", "I", "J", "K", "L", "M",
           "N", "O", "P", "Q", "R", "S", "T", "U", "V", "W", "X", "Y", "Z">>

Lower == <<"a", "b", "c", "d", "e", "f", "g", "h", "i", "j", "k", "l", "m",
           "n", "o", "p", "q", "r", "s", "t", "u", "v", "w", "x", "y", "z">>

\* str.lower() on one character
LowerChar(c) ==
    IF \E i \in 1..Len(Upper) : Upper[i] = c
    THEN Lower[CHOOSE i \in 1..Len(Upper) : Upper[i] = c]
    ELSE c

\* str.lower()
StrLower(s) == [i \in 1..Len(s) |-> LowerChar(s[i])]

RECURSIVE LStrip(_)
LStrip(s) ==
    IF s # <<>> /\ Head(s) \in Whitespace THEN LStrip(Tail(s)) ELSE s

RECURSIVE RStrip(_)
RStrip(s) ==
    IF s # <<>> /\ s[Len(s)] \in Whitespace
    THEN RStrip(SubSeq(s, 1, Len(s) - 1))
    ELSE s

\* str.strip()
Strip(s) == RStrip(LStrip(s))

\* `needle in s`
Contains(needle, s) ==
    \E i \in 0..(Len(s) - Len(needle)) :
        \A k \in 1..Len(needle) : s[i + k] = needle[k]

\* str.isdigit()
IsDigit(s) ==
    /\ s # <<>>
    /\ \A i \in 1..Len(s) : \E d \in 1..Len(Digits) : Digits[d] = s[i]

DigitValue(c) == (CHOOSE d \in 1..Len(Digits) : Digits[d] = c) - 1

\* int() of a digit-only text
RECURSIVE StrToInt(_)
StrToInt(s) ==
    IF s = <<>> THEN 0
    ELSE 10 * StrToInt(SubSeq(s, 1, Len(s) - 1)) + DigitValue(s[Len(s)])

\* str() of a non-negative int
RECURSIVE IntToStr(_)
IntToStr(n) ==
    IF n < 10 THEN <<Digits[n + 1]>>
    ELSE IntToStr(n \div 10) \o <<Digits[(n % 10) + 1]>>

\* s.replace(old, new) with a one-character `old`
RECURSIVE Replace(_, _, _)
Replace(s, old, new) ==
    IF s = <<>> THEN <<>>
    ELSE (IF Head(s) = old THEN new ELSE <<Head(s)>>) \o Replace(Tail(s), old, new)

----------------------------------------------------------------------------
(* Cells of the data frame *)

NaN == [t |-> "nan", s |-> <<>>, n |-> 0]
S(chars) == [t |-> "str", s |-> chars, n |-> 0]
I(num) == [t |-> "int", s |-> <<>>, n |-> num]

\* pd.notna(cell)
notna(cell) == cell.t # "nan"

\* str(cell) of a present cell
str(cell) == IF cell.t = "int" THEN IntToStr(cell.n) ELSE cell.s

\* int(cell) of a cell whose str() is digit-only after strip()
int(cell) == IF cell.t = "int" THEN cell.n ELSE StrToInt(Strip(cell.s))

\* Python's None, and the truth value of an optional text
None == <<"None">>
Truthy(x) == x # None /\ x # <<>>

----------------------------------------------------------------------------
(* Literals of the extractors *)

Answer == <<"A", "n", "s", "w", "e", "r">>

coverage == <<"c", "o", "v", "e", "r", "a", "g", "e">>
letter_of_guarantee ==
    <<"l", "e", "t", "t", "e", "r", " ", "o", "f", " ",
      "g", "u", "a", "r", "a", "n", "t", "e", "e">>
system == <<"s", "y", "s", "t", "e", "m">>
claims == <<"c", "l", "a", "i", "m", "s">>
status == <<"s", "t", "a", "t", "u", "s">>

Coverage == <<"C", "o", "v", "e", "r", "a", "g", "e">>
Letter_of_Guarantee ==
    <<"L", "e", "t", "t", "e", "r", " ", "o", "f", " ",
      "G", "u", "a", "r", "a", "n", "t", "e", "e">>
System == <<"S", "y", "s", "t", "e", "m">>
Status == <<"S", "t", "a", "t", "u", "s">>

Benefit_Coverage ==
    <<"B", "e", "n", "e", "f", "i", "t", " ",
      "C", "o", "v", "e", "r", "a", "g", "e">>
Letter_of_Guarantee_LOG ==
    <<"L", "e", "t", "t", "e", "r", " ", "o", "f", " ",
      "G", "u", "a", "r", "a", "n", "t", "e", "e", " ", "(", "L", "O", "G", ")">>
Portal_Matters ==
    <<"P", "o", "r", "t", "a", "l", " ", "M", "a", "t", "t", "e", "r", "s">>
Claims_Status ==
    <<"C", "l", "a", "i", "m", "s", " ", "S", "t", "a", "t", "u", "s">>

----------------------------------------------------------------------------
(* The dict faq_data, kept in insertion order *)

HasKey(d, name) == \E i \in 1..Len(d) : d[i].name = name

IndexOf(d, name) == CHOOSE i \in 1..Len(d) : d[i].name = name

\* d[name]
DictGet(d, name) == d[IndexOf(d, name)].items

\* DictReset as setdefault: an existing key keeps its list
DictSetDefault(d, name) ==
    IF HasKey(d, name) THEN d ELSE Append(d, [name |-> name, items |-> <<>>])

\* d[name] = []  (an existing key keeps its place and loses its list)
DictReset(d, name) ==
    IF HasKey(d, name)
    THEN [d EXCEPT ![IndexOf(d, name)].items = <<>>]
    ELSE Append(d, [name |-> name, items |-> <<>>])

\* DictAppend as insert(0, item)
DictPrepend(d, name, item) ==
    [d EXCEPT ![IndexOf(d, name)].items = <<item>> \o @]

\* d[name].append(item)
DictAppend(d, name, item) ==
    [d EXCEPT ![IndexOf(d, name)].items = Append(@, item)]

\* sum(len(q) for q in d.values())
RECURSIVE TotalQuestions(_)
TotalQuestions(d) ==
    IF d = <<>> THEN 0 ELSE Len(Head(d).items) + TotalQuestions(Tail(d))

----------------------------------------------------------------------------
(* Rows of the data frame: <<column 0, column 1, column 2>> *)

Col0(row) == row[1]
Col1(row) == row[2]
Col2(row) == row[3]

\* a printed line: its kind, the text and the number it carries
Line(k, s, n) == [k |-> k, s |-> s, n |-> n]

\* what scanning one row gives: the dict, the open section, the provenance,
\* the lines printed and whether an exception was raised
Scanned(d, cs, pv, lines, raised) ==
    [faq_data |-> d, current_section |-> cs, prov |-> pv,
     lines |-> lines, raised |-> raised]

\* OpenSection that empties the list under the mapped name and leaves
\* current_section as it was once a section is open
OpenSectionStale(section, d, cs, pv) ==
    Scanned(DictReset(d, section), IF cs = None THEN section ELSE cs,
            DictReset(pv, section), <<Line("section", section, 0)>>, FALSE)

\* `faq_data[current_section] = []` with current_section the mapped name:
\* the section is opened (or emptied) and becomes the open one
OpenSection(section, d, cs, pv) ==
    Scanned(DictReset(d, section), section, DictReset(pv, section),
            <<Line("section", section, 0)>>, FALSE)

(* parse_excel_faq.py *)

\* `pd.notna(row[2]) and row[2] == "Answer"`
IsHeaderExcel(row) ==
    notna(Col2(row)) /\ Col2(row).t = "str" /\ Col2(row).s = Answer

\* the if/elif chain that maps section names
MapSectionExcel(section_name) ==
    IF StrLower(section_name) = coverage THEN Benefit_Coverage
    ELSE IF StrLower(section_name) = letter_of_guarantee THEN Letter_of_Guarantee_LOG
    ELSE IF StrLower(section_name) = system THEN Portal_Matters
    ELSE IF StrLower(section_name) \in {claims, status} THEN Claims_Status
    ELSE section_name

\* `pd.notna(row[0]) and str(row[0]).strip().isdigit()`
IsDataRow(row) == notna(Col0(row)) /\ IsDigit(Strip(str(Col0(row))))

\* `str(row[k]).strip() if pd.notna(row[k]) else ""`
TextOf(cell) == IF notna(cell) THEN Strip(str(cell)) ELSE <<>>

\* the dict item of a Q&A row
Record(row) ==
    [number |-> int(Col0(row)), question |-> TextOf(Col1(row)),
     answer |-> TextOf(Col2(row))]

\* `if current_section and question`
Admits(cs, question) == Truthy(cs) /\ question # <<>>

\* the body of the loop of parse_faq_excel for the row at index idx
ExcelRow(row, idx, d, cs, pv) ==
    IF IsHeaderExcel(row) THEN
        IF notna(Col1(row)) THEN
            IF Col1(row).t # "str"
            THEN \* row[1].strip() on an int: AttributeError
                 Scanned(d, cs, pv, <<>>, TRUE)
            ELSE OpenSection(MapSectionExcel(Strip(Col1(row).s)), d, cs, pv)
        ELSE Scanned(d, cs, pv, <<>>, FALSE)
    ELSE IF IsDataRow(row) THEN
        LET q == Record(row)
        IN  IF Admits(cs, q.question)
            THEN Scanned(DictAppend(d, cs, q), cs, DictAppend(pv, cs, idx),
                         <<Line("question", q.question, q.number)>>, FALSE)
            ELSE Scanned(d, cs, pv, <<>>, FALSE)
    ELSE Scanned(d, cs, pv, <<>>, FALSE)

(* parse_excel_faq_cbre.py *)

\* `pd.notna(row[2]) and str(row[2]).strip() == 'Answer'`
IsHeaderCbre(row) == notna(Col2(row)) /\ Strip(str(Col2(row))) = Answer

\* the if/elif chain that maps section names
MapSectionCbre(section_name) ==
    IF Contains(Coverage, section_name) THEN Benefit_Coverage
    ELSE IF Contains(Letter_of_Guarantee, section_name) THEN Letter_of_Guarantee_LOG
    ELSE IF Contains(System, section_name) THEN Portal_Matters
    ELSE IF Contains(Status, section_name) THEN Claims_Status
    ELSE section_name

\* CbreRow without `if pd.notna(row[1])`: str() of an absent label is "nan",
\* and a header row without a label opens a section of that name
CbreRowUnguarded(row, idx, d, cs, pv) ==
    IF IsHeaderCbre(row) THEN
        IF notna(Col1(row)) THEN
            OpenSection(MapSectionCbre(Strip(str(Col1(row)))), d, cs, pv)
        ELSE OpenSection(<<"n", "a", "n">>, d, cs, pv)
    ELSE IF IsDataRow(row) THEN
        LET q == Record(row)
        IN  IF Admits(cs, q.question)
            THEN Scanned(DictAppend(d, cs, q), cs, DictAppend(pv, cs, idx),
                         <<Line("question", q.question, q.number)>>, FALSE)
            ELSE Scanned(d, cs, pv, <<>>, FALSE)
    ELSE Scanned(d, cs, pv, <<>>, FALSE)

\* the body of the loop of parse_cbre_faq for the row at index idx
CbreRow(row, idx, d, cs, pv) ==
    IF IsHeaderCbre(row) THEN
        IF notna(Col1(row)) THEN
            OpenSection(MapSectionCbre(Strip(str(Col1(row)))), d, cs, pv)
        ELSE Scanned(d, cs, pv, <<>>, FALSE)
    ELSE IF IsDataRow(row) THEN
        LET q == Record(row)
        IN  IF Admits(cs, q.question)
            THEN Scanned(DictAppend(d, cs, q), cs, DictAppend(pv, cs, idx),
                         <<Line("question", q.question, q.number)>>, FALSE)
            ELSE Scanned(d, cs, pv, <<>>, FALSE)
    ELSE Scanned(d, cs, pv, <<>>, FALSE)

----------------------------------------------------------------------------
(* The sheets the extractors are run on *)

Claims == <<"C", "l", "a", "i", "m", "s">>
Portal_System ==
    <<"P", "o", "r", "t", "a", "l", " ", "/", " ", "S", "y", "s", "t", "e", "m">>
Miscellaneous ==
    <<"M", "i", "s", "c", "e", "l", "l", "a", "n", "e", "o", "u", "s">>

\* the rows a sheet is made of: header rows with the labels of the
\* specification's examples, with a blank, an absent and a numeric label,
\* with a padded marker and with a digit-only column 0 next to an absent
\* label; Q&A rows with equal and with out-of-sequence
\* numbers, padded text, an absent answer and a blank question; a row that is
\* neither
SheetRows ==
    { <<NaN, S(Claims), S(Answer)>>,
      <<NaN, S(Portal_System), S(Answer)>>,
      <<NaN, S(Miscellaneous), S(Answer)>>,
      <<NaN, NaN, S(Answer)>>,
      <<I(1), NaN, S(Answer)>>,
      <<S(<<"2">>), NaN, S(<<" ", "A", "n", "s", "w", "e", "r", " ">>)>>,
      <<NaN, S(<<" ">>), S(Answer)>>,
      <<NaN, I(5), S(Answer)>>,
      <<I(1), S(status), S(Answer)>>,
      <<I(1), S(Claims), S(<<" ", "A", "n", "s", "w", "e", "r", " ">>)>>,
      <<I(1), S(<<" ", "Q", "?", " ">>), S(<<"a", "\n", "b", " ">>)>>,
      <<I(1), S(<<"Q", "?">>), NaN>>,
      <<I(3), S(<<"Q", "3">>), S(<<"a", "n", "s", "w", "e", "r">>)>>,
      <<S(<<"2">>), S(<<" ">>), S(<<"a">>)>>,
      <<S(<<"x">>), S(<<"Q", "?">>), S(<<"a">>)>> }

----------------------------------------------------------------------------
(* The extractor scripts as processes *)

Extractors == {"parse_excel_faq", "parse_excel_faq_cbre"}

NotWritten == [written |-> FALSE, data |-> <<>>]
Written(d) == [written |-> TRUE, data |-> d]

\* the lines `  {section}: {count} questions`
RECURSIVE CountLines(_)
CountLines(d) ==
    IF d = <<>> THEN <<>>
    ELSE <<Line("count", Head(d).name, Len(Head(d).items))>> \o CountLines(Tail(d))

\* the print of the total
TotalLine(d) == Line("total", <<>>, TotalQuestions(d))

\* the "Sample data" loop of main: the first section, its first two questions
SampleLines(d) ==
    IF d = <<>> THEN <<>>
    ELSE <<Line("sample section", Head(d).name, 0)>>
         \o [i \in 1..(IF Len(Head(d).items) < 2 THEN Len(Head(d).items) ELSE 2) |->
                Line("sample", Head(d).items[i].question, Head(d).items[i].number)]

GeneratorsIdle ==
    /\ sql_statements = <<>>
    /\ sql_file = NotWritten
    /\ safe_file = NotWritten
    /\ jsx_content = <<>>

Init ==
    /\ script \in Extractors
    /\ pc = "load"
    /\ rows = <<>>
    /\ faq_data = <<>>
    /\ current_section = None
    /\ prov = <<>>
    /\ out = <<>>
    /\ json_file = NotWritten
    /\ exit_code = "none"
    /\ GeneratorsIdle

\* the banner main prints before the try (parse_cbre_faq prints none)
Banner == IF script = "parse_excel_faq" THEN <<Line("banner", <<>>, 0)>> ELSE <<>>

\* pd.read_excel returns the data frame
LoadOk ==
    /\ script \in Extractors /\ pc = "load"
    /\ pc' = "scan"
    /\ out' = out \o Banner
    /\ UNCHANGED << script, rows, faq_data, current_section, prov, json_file,
                    exit_code, sql_statements, sql_file, safe_file, jsx_content >>

\* pd.read_excel raises (missing file, unsupported format, no such sheet)
LoadFail ==
    /\ script \in Extractors /\ pc = "load"
    /\ pc' = "raised"
    /\ out' = out \o Banner
    /\ UNCHANGED << script, rows, faq_data, current_section, prov, json_file,
                    exit_code, sql_statements, sql_file, safe_file, jsx_content >>

\* one iteration of `for idx, row in df.iterrows()`
Iterate(row) ==
    /\ script \in Extractors /\ pc = "scan"
    /\ Len(rows) < MaxRows
    /\ \E r \in { IF script = "parse_excel_faq"
                   THEN ExcelRow(row, Len(rows) + 1, faq_data, current_section, prov)
                   ELSE CbreRow(row, Len(rows) + 1, faq_data, current_section, prov) } :
           /\ rows' = Append(rows, row)
           /\ faq_data' = r.faq_data
           /\ current_section' = r.current_section
           /\ prov' = r.prov
           /\ out' = out \o r.lines
           /\ pc' = IF r.raised THEN "raised" ELSE "scan"
    /\ UNCHANGED << script, json_file, exit_code, sql_statements, sql_file,
                    safe_file, jsx_content >>

\* the data frame has no more rows: parse_faq_excel returns to main,
\* parse_cbre_faq goes on to save
EndOfRows ==
    /\ script \in Extractors /\ pc = "scan"
    /\ pc' = IF script = "parse_excel_faq" THEN "summary" ELSE "save"
    /\ UNCHANGED << script, rows, faq_data, current_section, prov, out,
                    json_file, exit_code, sql_statements, sql_file, safe_file,
                    jsx_content >>

\* main: the summary
MainSummary ==
    /\ script = "parse_excel_faq" /\ pc = "summary"
    /\ out' = out \o <<Line("summary", <<>>, 0)>> \o CountLines(faq_data)
                  \o <<TotalLine(faq_data)>>
    /\ pc' = "save"
    /\ UNCHANGED << script, rows, faq_data, current_section, prov, json_file,
                    exit_code, sql_statements, sql_file, safe_file, jsx_content >>

\* main: json.dump(faq_data, f)
MainSave ==
    /\ script = "parse_excel_faq" /\ pc = "save"
    /\ json_file' = Written(faq_data)
    /\ out' = Append(out, Line("saved", <<>>, 0))
    /\ pc' = "sample"
    /\ UNCHANGED << script, rows, faq_data, current_section, prov, exit_code,
                    sql_statements, sql_file, safe_file, jsx_content >>

\* main: the sample, then the script ends
MainSample ==
    /\ script = "parse_excel_faq" /\ pc = "sample"
    /\ out' = out \o SampleLines(faq_data)
    /\ pc' = "done"
    /\ exit_code' = "0"
    /\ UNCHANGED << script, rows, faq_data, current_section, prov, json_file,
                    sql_statements, sql_file, safe_file, jsx_content >>

\* MainExcept that reports the error and goes on to the summary and the save
MainExceptContinue ==
    /\ script = "parse_excel_faq" /\ pc = "raised"
    /\ out' = Append(out, Line("error", <<>>, 0))
    /\ pc' = "summary"
    /\ UNCHANGED << script, rows, faq_data, current_section, prov, json_file,
                    exit_code, sql_statements, sql_file, safe_file, jsx_content >>

\* main: `except Exception as e: print(...); sys.exit(1)`
MainExcept ==
    /\ script = "parse_excel_faq" /\ pc = "raised"
    /\ out' = Append(out, Line("error", <<>>, 0))
    /\ pc' = "done"
    /\ exit_code' = "1"
    /\ UNCHANGED << script, rows, faq_data, current_section, prov, json_file,
                    sql_statements, sql_file, safe_file, jsx_content >>

\* parse_cbre_faq: json.dump(faq_data, f)
CbreSave ==
    /\ script = "parse_excel_faq_cbre" /\ pc = "save"
    /\ json_file' = Written(faq_data)
    /\ out' = Append(out, Line("saved", <<>>, 0))
    /\ pc' = "summary"
    /\ UNCHANGED << script, rows, faq_data, current_section, prov, exit_code,
                    sql_statements, sql_file, safe_file, jsx_content >>

\* parse_cbre_faq: the summary, then the script ends
CbreSummary ==
    /\ script = "parse_excel_faq_cbre" /\ pc = "summary"
    /\ out' = out \o <<Line("summary", <<>>, 0)>> \o CountLines(faq_data)
                  \o <<TotalLine(faq_data)>>
    /\ pc' = "done"
    /\ exit_code' = "0"
    /\ UNCHANGED << script, rows, faq_data, current_section, prov, json_file,
                    sql_statements, sql_file, safe_file, jsx_content >>

\* parse_excel_faq_cbre.py catches nothing: the exception ends the process
Uncaught ==
    /\ script = "parse_excel_faq_cbre" /\ pc = "raised"
    /\ pc' = "done"
    /\ exit_code' = "1"
    /\ UNCHANGED << script, rows, faq_data, current_section, prov, out,
                    json_file, sql_statements, sql_file, safe_file, jsx_content >>

Next ==
    \/ LoadOk
    \/ LoadFail
    \/ \E row \in SheetRows : Iterate(row)
    \/ EndOfRows
    \/ MainSummary
    \/ MainSave
    \/ MainSample
    \/ MainExcept
    \/ CbreSave
    \/ CbreSummary
    \/ Uncaught

Spec == Init /\ [][Next]_vars

----------------------------------------------------------------------------
(* generate_sql_inserts.py *)

(* A statement is a sequence of pieces: the characters of the texts that are
   interpolated, and the literal stretches of the f-strings as whole pieces. *)

DELETE_FROM == <<"D", "E", "L", "E", "T", "E", " ", "F", "R", "O", "M">>

Quote == "'"

escape_sql_string(text) ==
    IF text = <<>> THEN <<>> ELSE Replace(text, Quote, <<Quote, Quote>>)

\* category_mapping.get(section_name, {'category': 'general', 'subcategory': 'faq'})
category_mapping(section_name) ==
    IF section_name = Benefit_Coverage
    THEN [category |-> <<"b", "e", "n", "e", "f", "i", "t", "s">>,
          subcategory |-> <<"c", "o", "v", "e", "r", "a", "g", "e">>]
    ELSE IF section_name = Letter_of_Guarantee_LOG
    THEN [category |-> <<"l", "o", "g">>,
          subcategory |-> <<"r", "e", "q", "u", "e", "s", "t", "s">>]
    ELSE IF section_name = Portal_Matters
    THEN [category |-> <<"p", "o", "r", "t", "a", "l">>,
          subcategory |-> <<"a", "c", "c", "e", "s", "s">>]
    ELSE IF section_name = Claims_Status
    THEN [category |-> <<"c", "l", "a", "i", "m", "s">>,
          subcategory |-> <<"s", "t", "a", "t", "u", "s">>]
    ELSE [category |-> <<"g", "e", "n", "e", "r", "a", "l">>,
          subcategory |-> <<"f", "a", "q">>]

\* the length above which an answer counts as detailed
DetailedAnswerLength == 100

\* json.dumps of a str
JsonString(text) ==
    <<"\"">>
    \o Replace(Replace(Replace(text, "\\", <<"\\", "\\">>), "\"", <<"\\", "\"">>),
               "\n", <<"\\", "n">>)
    \o <<"\"">>

\* json.dumps(metadata).replace("'", "''")
metadata_json(section_name, number, answer) ==
    Replace(<<"{\"section\": ">> \o JsonString(section_name)
            \o <<", \"question_number\": ">> \o IntToStr(number)
            \o <<", \"has_detailed_answer\": ">>
            \o (IF Len(answer) > DetailedAnswerLength
                THEN <<"t", "r", "u", "e">> ELSE <<"f", "a", "l", "s", "e">>)
            \o <<"}">>,
            Quote, <<Quote, Quote>>)

InsertHead ==
    "INSERT INTO knowledge_base (title, content, category, subcategory, metadata, source, confidence_score, is_active)\nVALUES (\n  '"

NextValue == "',\n  '"

InsertTail == "'::jsonb,\n  'Helpdesk FAQ Excel',\n  1.0,\n  true\n);"

\* the f-string `sql` for the escaped question and answer
InsertStatement(section_name, number, question, answer) ==
    <<InsertHead>> \o question
    \o <<NextValue>> \o answer
    \o <<NextValue>> \o category_mapping(section_name).category
    \o <<NextValue>> \o category_mapping(section_name).subcategory
    \o <<NextValue>> \o metadata_json(section_name, number, answer)
    \o <<InsertTail>>

\* the header comments
HeaderStatements(d) ==
    << <<"-- FAQ Knowledge Base Insert Statements">>,
       <<"-- Generated from Helpdesk FAQ for Chatbot.xlsx">>,
       <<"-- Total Questions: ">> \o IntToStr(TotalQuestions(d)),
       <<>>,
       <<"-- Clear existing FAQ data (optional - remove if you want to keep existing data)">>,
       <<"-- ">> \o DELETE_FROM \o <<" knowledge_base WHERE source = 'Helpdesk FAQ Excel';">>,
       <<>> >>

\* the body of `for q in questions`
QuestionStatements(section_name, q) ==
    LET question == escape_sql_string(q.question)
        answer == escape_sql_string(q.answer)
    IN  IF answer = <<>> \/ Strip(answer) = <<>>
        THEN << <<"-- Skipping Q">> \o IntToStr(q.number) \o <<": No answer provided">> >>
        ELSE << InsertStatement(section_name, q.number, question, answer), <<>> >>

RECURSIVE QuestionsStatements(_, _)
QuestionsStatements(section_name, questions) ==
    IF questions = <<>> THEN <<>>
    ELSE QuestionStatements(section_name, Head(questions))
         \o QuestionsStatements(section_name, Tail(questions))

\* the loop `for section_name, questions in faq_data.items()`
RECURSIVE SectionStatements(_)
SectionStatements(d) ==
    IF d = <<>> THEN <<>>
    ELSE << <<"-- ">> \o Head(d).name \o <<" (">> \o IntToStr(Len(Head(d).items))
               \o <<" questions)">>,
            <<>> >>
         \o QuestionsStatements(Head(d).name, Head(d).items)
         \o SectionStatements(Tail(d))

\* s.startswith('INSERT')
StartsWithInsert(s) == s # <<>> /\ s[1] = InsertHead

\* 'DELETE FROM' not in s
NoDeleteFrom(s) == ~Contains(DELETE_FROM, s)

\* `q['answer'] and q['answer'].strip()`
HasAnswer(q) == q.answer # <<>> /\ Strip(q.answer) # <<>>

\* the summary lines `  {section_name}: {valid_count} questions with answers`
RECURSIVE ValidCountLines(_)
ValidCountLines(d) ==
    IF d = <<>> THEN <<>>
    ELSE <<Line("valid", Head(d).name, Len(SelectSeq(Head(d).items, HasAnswer)))>>
         \o ValidCountLines(Tail(d))

(* The mappings the generator is run on *)

\* the longest list of a section
MaxQuestions == 2

SqlRecords ==
    { [number |-> 1, question |-> qa[1], answer |-> qa[2]] :
        qa \in { << <<"i", "t", "'", "s">>, <<>> >>,
                 << <<"i", "t", "'", "s">>, <<" ">> >>,
                 << <<"i", "t", "'", "s">>, <<"a", "'", "b">> >>,
                 << DELETE_FROM, <<"a", "'", "b">> >>,
                 << <<"i", "t", "'", "s">>, <<"x", " ">> \o DELETE_FROM >> } }

SqlLists == UNION { [1..n -> SqlRecords] : n \in 0..MaxQuestions }

SqlNames == { Claims_Status, <<"F", "A", "Q">> }

SqlInputs ==
    { <<>> }
    \cup { <<[name |-> a, items |-> l]>> : a \in SqlNames, l \in SqlLists }
    \cup { <<[name |-> n[1], items |-> l1], [name |-> n[2], items |-> l2]>> :
             n \in { m \in SqlNames \X SqlNames : m[1] # m[2] },
             l1 \in SqlLists, l2 \in SqlLists }

ExtractorsIdle ==
    /\ rows = <<>>
    /\ current_section = None
    /\ prov = <<>>
    /\ json_file = NotWritten

InitSql ==
    /\ script = "generate_sql_inserts"
    /\ pc = "load"
    /\ faq_data = <<>>
    /\ out = <<>>
    /\ exit_code = "none"
    /\ sql_statements = <<>>
    /\ sql_file = NotWritten
    /\ safe_file = NotWritten
    /\ jsx_content = <<>>
    /\ ExtractorsIdle

\* json.load of faq_sections.json
SqlLoad ==
    /\ script = "generate_sql_inserts" /\ pc = "load"
    /\ \E d \in SqlInputs : faq_data' = d
    /\ pc' = "generate"
    /\ UNCHANGED << script, rows, current_section, prov, out, json_file,
                    exit_code, sql_statements, sql_file, safe_file, jsx_content >>

\* the statement list is built
SqlGenerate ==
    /\ script = "generate_sql_inserts" /\ pc = "generate"
    /\ sql_statements' = HeaderStatements(faq_data) \o SectionStatements(faq_data)
    /\ pc' = "write"
    /\ UNCHANGED << script, rows, faq_data, current_section, prov, out,
                    json_file, exit_code, sql_file, safe_file, jsx_content >>

\* insert_faq_knowledge.sql is written: the statements, joined by newlines
SqlWrite ==
    /\ script = "generate_sql_inserts" /\ pc = "write"
    /\ sql_file' = Written(sql_statements)
    /\ out' = out \o << Line("generated", <<>>, 0),
                        Line("statements", <<>>,
                             Len(SelectSeq(sql_statements, StartsWithInsert))) >>
    /\ pc' = "write safe"
    /\ UNCHANGED << script, rows, faq_data, current_section, prov, json_file,
                    exit_code, sql_statements, safe_file, jsx_content >>

\* insert_faq_knowledge_safe.sql is written: the statements without 'DELETE FROM'
SqlWriteSafe ==
    /\ script = "generate_sql_inserts" /\ pc = "write safe"
    /\ safe_file' = Written(SelectSeq(sql_statements, NoDeleteFrom))
    /\ out' = Append(out, Line("safe", <<>>, 0))
    /\ pc' = "summary"
    /\ UNCHANGED << script, rows, faq_data, current_section, prov, json_file,
                    exit_code, sql_statements, sql_file, jsx_content >>

\* the summary, then the script ends
SqlSummary ==
    /\ script = "generate_sql_inserts" /\ pc = "summary"
    /\ out' = out \o <<Line("summary", <<>>, 0)>> \o ValidCountLines(faq_data)
    /\ pc' = "done"
    /\ exit_code' = "0"
    /\ UNCHANGED << script, rows, faq_data, current_section, prov, json_file,
                    sql_statements, sql_file, safe_file, jsx_content >>

NextSql ==
    \/ SqlLoad
    \/ SqlGenerate
    \/ SqlWrite
    \/ SqlWriteSafe
    \/ SqlSummary

SpecSql == InitSql /\ [][NextSql]_vars

----------------------------------------------------------------------------
(* generate_quick_questions.py *)

Backslash == "\\"

\* escape_js_string with the quotes replaced before the backslashes
escape_js_string_quotes_first(text) ==
    IF text = <<>> THEN <<>>
    ELSE Replace(Replace(Replace(text, Quote, <<Backslash, Quote>>),
                         Backslash, <<Backslash, Backslash>>),
                 "\n", <<Backslash, "n">>)

escape_js_string(text) ==
    IF text = <<>> THEN <<>>
    ELSE Replace(Replace(Replace(text, Backslash, <<Backslash, Backslash>>),
                         Quote, <<Backslash, Quote>>),
                 "\n", <<Backslash, "n">>)

\* category_ids.get(section_name, section_name.lower().replace(' ', '-'))
category_id(section_name) ==
    IF section_name = Benefit_Coverage
    THEN <<"b", "e", "n", "e", "f", "i", "t", "-",
           "c", "o", "v", "e", "r", "a", "g", "e">>
    ELSE IF section_name = Letter_of_Guarantee_LOG
    THEN <<"l", "e", "t", "t", "e", "r", "-", "o", "f", "-",
           "g", "u", "a", "r", "a", "n", "t", "e", "e">>
    ELSE IF section_name = Portal_Matters
    THEN <<"p", "o", "r", "t", "a", "l", "-", "m", "a", "t", "t", "e", "r", "s">>
    ELSE IF section_name = Claims_Status
    THEN <<"c", "l", "a", "i", "m", "s", "-", "s", "t", "a", "t", "u", "s">>
    ELSE Replace(StrLower(section_name), " ", <<"-">>)

\* a piece of jsx_content: the opening of a category (its id and title) or
\* one `{ q: '...', a: '...' }`
Entry(kind, q, a) == [kind |-> kind, q |-> q, a |-> a]

\* the loop `for q_idx, q in enumerate(questions)`
RECURSIVE QuestionEntries(_)
QuestionEntries(questions) ==
    IF questions = <<>> THEN <<>>
    ELSE <<Entry("question", escape_js_string(Head(questions).question),
                 escape_js_string(Head(questions).answer))>>
         \o QuestionEntries(Tail(questions))

\* the loop `for idx, (section_name, questions) in enumerate(faq_data.items())`
RECURSIVE CategoryEntries(_)
CategoryEntries(d) ==
    IF d = <<>> THEN <<>>
    ELSE <<Entry("category", category_id(Head(d).name), Head(d).name)>>
         \o QuestionEntries(Head(d).items)
         \o CategoryEntries(Tail(d))

(* The mappings the generator is run on *)

\* the characters escape_js_string treats apart, and an ordinary one
JsChars == {Backslash, Quote, "\n", "n"}

JsTexts == UNION { [1..k -> JsChars] : k \in 0..MaxLen }

\* one section with one question, over all the texts; the empty mapping; and
\* two sections, one of a name that has no id, with two questions
JsInputs ==
    { <<>> }
    \cup { <<[name |-> Benefit_Coverage,
              items |-> <<[number |-> 1, question |-> t, answer |-> u]>>]>> :
             t \in JsTexts, u \in JsTexts }
    \cup { << [name |-> <<"M", "y", " ", "F", "A", "Q">>,
               items |-> << [number |-> 1, question |-> <<"n", Quote>>,
                             answer |-> <<>>],
                            [number |-> 2, question |-> <<Backslash, "n">>,
                             answer |-> <<"\n">>] >>],
              [name |-> Claims_Status, items |-> <<>>] >> }

InitJs ==
    /\ script = "generate_quick_questions"
    /\ pc = "load"
    /\ faq_data = <<>>
    /\ out = <<>>
    /\ exit_code = "none"
    /\ sql_statements = <<>>
    /\ sql_file = NotWritten
    /\ safe_file = NotWritten
    /\ jsx_content = <<>>
    /\ ExtractorsIdle

\* json.load of faq_sections.json
JsLoad ==
    /\ script = "generate_quick_questions" /\ pc = "load"
    /\ \E d \in JsInputs : faq_data' = d
    /\ pc' = "generate"
    /\ UNCHANGED << script, rows, current_section, prov, out, json_file,
                    exit_code, sql_statements, sql_file, safe_file, jsx_content >>

\* jsx_content is built
JsGenerate ==
    /\ script = "generate_quick_questions" /\ pc = "generate"
    /\ jsx_content' = CategoryEntries(faq_data)
    /\ pc' = "write"
    /\ UNCHANGED << script, rows, faq_data, current_section, prov, out,
                    json_file, exit_code, sql_statements, sql_file, safe_file >>

\* QuickQuestions.jsx is written and the summary printed; the script ends
JsWrite ==
    /\ script = "generate_quick_questions" /\ pc = "write"
    /\ out' = out \o <<Line("generated", <<>>, Len(faq_data)),
                       TotalLine(faq_data)>> \o CountLines(faq_data)
    /\ pc' = "done"
    /\ exit_code' = "0"
    /\ UNCHANGED << script, rows, faq_data, current_section, prov, json_file,
                    sql_statements, sql_file, safe_file, jsx_content >>

NextJs ==
    \/ JsLoad
    \/ JsGenerate
    \/ JsWrite

SpecJs == InitJs /\ [][NextJs]_vars

----------------------------------------------------------------------------
(* Vocabulary of the properties of the extractors *)

\* the header test of the script that is running
IsHeaderRow(row) ==
    IF script = "parse_excel_faq" THEN IsHeaderExcel(row) ELSE IsHeaderCbre(row)

\* row i is a header row that carries a label
LabelledHeader(i) == IsHeaderRow(rows[i]) /\ notna(Col1(rows[i]))

\* the section name the running script resolves the label of a header row to
ResolvedName(row) ==
    IF script = "parse_excel_faq"
    THEN MapSectionExcel(Strip(str(Col1(row))))
    ELSE MapSectionCbre(Strip(str(Col1(row))))

\* the loop has ended without an exception and faq_data is the mapping
\* extracted from the rows: parse_faq_excel has just returned it to main,
\* parse_cbre_faq is about to save it (no later step changes it)
Returned ==
    /\ script \in Extractors
    /\ pc = IF script = "parse_excel_faq" THEN "summary" ELSE "save"

\* the places <<entry, position>> of the mapping that hold a Record of row r
RecordsFrom(r) ==
    { p \in (1..Len(prov)) \X (1..Len(rows)) :
        p[2] <= Len(prov[p[1]].items) /\ prov[p[1]].items[p[2]] = r }

\* the section that is open when row r is scanned: the one the last header
\* row with a label before r resolved to
OpenAt(r) ==
    IF \E h \in 1..(r - 1) : LabelledHeader(h)
    THEN ResolvedName(rows[CHOOSE h \in 1..(r - 1) :
              LabelledHeader(h) /\ \A j \in (h + 1)..(r - 1) : ~LabelledHeader(j)])
    ELSE None

\* row r is a Q&A row with a question, scanned while a section is open
AdmittedRow(r) ==
    /\ ~IsHeaderRow(rows[r])
    /\ IsDataRow(rows[r])
    /\ TextOf(Col1(rows[r])) # <<>>
    /\ Truthy(OpenAt(r))

\* the dict and its provenance have the same keys in the same order, and
\* every item is the Record of the row it came from
ItemsAreRecords ==
    /\ Len(prov) = Len(faq_data)
    /\ \A e \in 1..Len(faq_data) :
        /\ prov[e].name = faq_data[e].name
        /\ Len(prov[e].items) = Len(faq_data[e].items)
        /\ \A k \in 1..Len(faq_data[e].items) :
            /\ prov[e].items[k] \in 1..Len(rows)
            /\ faq_data[e].items[k] = Record(rows[prov[e].items[k]])

----------------------------------------------------------------------------
(* C1 *)

\* C1 as stated: every Record of the mapping is stored under the name
\* resolved from the header row (column 2 is the marker) that most recently
\* preceded its row, and no Record comes from a row before every header row.
C1_AttributionToLastMarkerRow ==
    Returned =>
        /\ ItemsAreRecords
        /\ \A e \in 1..Len(faq_data) : \A k \in 1..Len(prov[e].items) :
            LET r == prov[e].items[k]
            IN  \E h \in 1..(r - 1) :
                    /\ IsHeaderRow(rows[h])
                    /\ \A j \in (h + 1)..(r - 1) : ~IsHeaderRow(rows[j])
                    /\ notna(Col1(rows[h]))
                    /\ ResolvedName(rows[h]) = faq_data[e].name

\* C1 amended: every Record of the mapping is stored under the name resolved
\* from the most recent preceding header row that carries a label (column 1
\* present), header rows without a label being passed over; no Record comes
\* from a row before every such header row.
C1_Attribution ==
    Returned =>
        /\ ItemsAreRecords
        /\ \A e \in 1..Len(faq_data) : \A k \in 1..Len(prov[e].items) :
            LET r == prov[e].items[k]
            IN  \E h \in 1..(r - 1) :
                    /\ LabelledHeader(h)
                    /\ \A j \in (h + 1)..(r - 1) : ~LabelledHeader(j)
                    /\ ResolvedName(rows[h]) = faq_data[e].name

\* a Record whose row directly follows a header row without a label, stored
\* under the section opened before that header row
C1_Witness ==
    /\ Returned
    /\ \E e \in 1..Len(faq_data) : \E k \in 1..Len(prov[e].items) :
        LET r == prov[e].items[k]
        IN  /\ r = 3
            /\ IsHeaderRow(rows[2]) /\ ~notna(Col1(rows[2]))
            /\ LabelledHeader(1)
            /\ faq_data[e].name = ResolvedName(rows[1])

----------------------------------------------------------------------------
(* C2 *)

\* C2: the row just scanned, when it is not a header row and its column 0 is
\* digit-only, has exactly one Record, the last of the open section's list,
\* if and only if an earlier header row opened a section and its trimmed
\* question is non-empty; otherwise it has no Record anywhere.
C2_Admission ==
    (Returned /\ rows # <<>>) =>
        LET r == Len(rows)
            row == rows[r]
        IN  (~IsHeaderRow(row) /\ IsDataRow(row)) =>
                IF (\E h \in 1..(r - 1) : LabelledHeader(h)) /\ TextOf(Col1(row)) # <<>>
                THEN /\ Cardinality(RecordsFrom(r)) = 1
                     /\ \A p \in RecordsFrom(r) :
                            /\ faq_data[p[1]].name = current_section
                            /\ p[2] = Len(faq_data[p[1]].items)
                            /\ faq_data[p[1]].items[p[2]] = Record(row)
                ELSE RecordsFrom(r) = {}

----------------------------------------------------------------------------
(* C3 *)

\* C3: in both scripts a header row just scanned opens "Claims Status" when
\* its raw label is "Claims", "Portal Matters" when it is "Portal / System",
\* and "Miscellaneous" when it is "Miscellaneous".
C3_KeywordResolution ==
    (Returned /\ rows # <<>>) =>
        LET row == rows[Len(rows)]
            opens(name) == current_section = name /\ HasKey(faq_data, name)
        IN  (IsHeaderRow(row) /\ Col1(row).t = "str") =>
                /\ Col1(row).s = Claims => opens(Claims_Status)
                /\ Col1(row).s = Portal_System => opens(Portal_Matters)
                /\ Col1(row).s = Miscellaneous => opens(Miscellaneous)

----------------------------------------------------------------------------
(* C4 *)

\* the rows after header row j, up to the next header row that opens a
\* section, that are admitted
AdmittedAfter(j) ==
    { r \in (j + 1)..Len(rows) :
        AdmittedRow(r) /\ \A h \in (j + 1)..(r - 1) : ~LabelledHeader(h) }

\* C4: when header rows i < j resolve to the same name, the mapping has one
\* key of that name and its list holds no Record of a row before j (none of
\* those admitted between i and j); when j is the last header row of that
\* name, the list holds exactly the Records admitted after j up to the next
\* header row that opens a section.
C4_HeaderReset ==
    Returned =>
        \A i \in 1..Len(rows) : \A j \in (i + 1)..Len(rows) :
            (LabelledHeader(i) /\ LabelledHeader(j)
                /\ ResolvedName(rows[i]) = ResolvedName(rows[j])) =>
            LET name == ResolvedName(rows[j])
                from == DictGet(prov, name)
                last == \A h \in (j + 1)..Len(rows) :
                            ~(LabelledHeader(h) /\ ResolvedName(rows[h]) = name)
            IN  /\ Cardinality({e \in 1..Len(faq_data) : faq_data[e].name = name}) = 1
                /\ ItemsAreRecords
                /\ \A k \in 1..Len(from) : from[k] > j
                /\ last => /\ {from[k] : k \in 1..Len(from)} = AdmittedAfter(j)
                           /\ Len(from) = Cardinality(AdmittedAfter(j))

\* two header rows of the same resolved name with an admitted Q&A row
\* between them, which the returned list no longer holds
C4_Witness ==
    /\ Returned
    /\ Len(rows) = 3
    /\ LabelledHeader(1) /\ LabelledHeader(3)
    /\ ResolvedName(rows[1]) = ResolvedName(rows[3])
    /\ AdmittedRow(2)
    /\ DictGet(faq_data, ResolvedName(rows[3])) = <<>>

----------------------------------------------------------------------------
(* C5 *)

\* the header-row test of the specification: column 2 present and its
\* trimmed text equal to "Answer"
IsMarker(row) == notna(Col2(row)) /\ Strip(str(Col2(row))) = Answer

\* C5: in both scripts a scanned row is classified a header row exactly when
\* column 2 is present and its trimmed text is "Answer", and such a row has
\* no Record in the mapping, whatever its column 0.
C5_HeaderTest ==
    Returned =>
        \A r \in 1..Len(rows) :
            /\ IsHeaderRow(rows[r]) <=> IsMarker(rows[r])
            /\ IsMarker(rows[r]) => RecordsFrom(r) = {}

----------------------------------------------------------------------------
(* C6 *)

\* the section rows of the grid that the list of entry e answers for: the
\* admitted rows since the last header row that resolved to its name
RowsOf(e) ==
    { r \in 1..Len(rows) :
        /\ AdmittedRow(r)
        /\ OpenAt(r) = faq_data[e].name
        /\ \A h \in (r + 1)..Len(rows) :
              ~(LabelledHeader(h) /\ ResolvedName(rows[h]) = faq_data[e].name) }

\* C6: every list of the mapping is the sequence of its section's admitted
\* rows in ascending row order, one Record per row with the row's number,
\* trimmed question and trimmed answer (the empty text when column 2 is
\* absent): nothing merged, reordered or dropped, whatever the numbers.
C6_OrderPreservation ==
    Returned =>
        /\ ItemsAreRecords
        /\ \A e \in 1..Len(faq_data) :
            /\ \A k \in 1..(Len(prov[e].items) - 1) :
                  prov[e].items[k] < prov[e].items[k + 1]
            /\ {prov[e].items[k] : k \in 1..Len(prov[e].items)} = RowsOf(e)
            /\ \A k \in 1..Len(faq_data[e].items) :
                LET row == rows[prov[e].items[k]]
                    q == faq_data[e].items[k]
                IN  /\ q.number = int(Col0(row))
                    /\ q.question = Strip(str(Col1(row)))
                    /\ q.answer = IF notna(Col2(row)) THEN Strip(str(Col2(row))) ELSE <<>>

\* a list of two Records with the same number, the second with an empty answer
C6_Witness ==
    /\ Returned
    /\ \E e \in 1..Len(faq_data) :
        /\ Len(faq_data[e].items) = 2
        /\ faq_data[e].items[1].number = faq_data[e].items[2].number
        /\ faq_data[e].items[1].answer # <<>>
        /\ faq_data[e].items[2].answer = <<>>
        /\ prov[e].items = <<2, 3>>

----------------------------------------------------------------------------
(* C9 *)

\* C9: once an exception is raised (by the load or during the scan) the JSON
\* file is not written and never will be; the next step ends the process
\* with status 1, main of parse_excel_faq.py having printed the error; in
\* no run that ends with status 1 has the file been written.
C9_NoWriteOnError ==
    /\ [](script \in Extractors =>
            /\ (pc = "raised" \/ exit_code = "1") => ~json_file.written
            /\ exit_code = "1" => pc = "done"
            /\ (exit_code = "1" /\ script = "parse_excel_faq") =>
                   out[Len(out)] = Line("error", <<>>, 0))
    /\ [][(script \in Extractors /\ pc = "raised") =>
            (pc' = "done" /\ exit_code' = "1" /\ ~json_file'.written)]_vars
    /\ [][(script \in Extractors /\ exit_code = "1") => UNCHANGED vars]_vars

\* main of parse_excel_faq.py has ended with status 1 on an exception raised
\* in the middle of the scan, with a section already extracted
C9_Witness ==
    /\ script = "parse_excel_faq"
    /\ pc = "done" /\ exit_code = "1"
    /\ Len(rows) >= 2
    /\ faq_data # <<>>
    /\ ~json_file.written

----------------------------------------------------------------------------
(* C10 *)

HasLine(kind) == \E i \in 1..Len(out) : out[i].k = kind

\* C10: a run whose extraction raised nothing and gave a mapping with no
\* Record at all has, when it ends, printed the total of the summary and a
\* warning about the empty result, written the output and ended with
\* status 0.
C10_ZeroResultWarning ==
    (script \in Extractors /\ pc = "done" /\ exit_code # "1"
        /\ TotalQuestions(faq_data) = 0) =>
        /\ HasLine("total")
        /\ HasLine("warning")
        /\ json_file.written
        /\ exit_code = "0"

----------------------------------------------------------------------------
(* C11 *)

\* a row whose column 2 is the "Answer" marker and whose column 1 is absent
UnlabelledMarker(row) == IsMarker(row) /\ ~notna(Col1(row))

\* the grid without its row h
Without(grid, h) == SubSeq(grid, 1, h - 1) \o SubSeq(grid, h + 1, Len(grid))

\* the loop `for idx, row in df.iterrows()` of the running script over the
\* rows k.. of a grid, from the state acc
RECURSIVE ScanRows(_, _, _)
ScanRows(grid, k, acc) ==
    IF k > Len(grid) THEN acc
    ELSE ScanRows(grid, k + 1,
             IF script = "parse_excel_faq"
             THEN ExcelRow(grid[k], k, acc.faq_data, acc.current_section, acc.prov)
             ELSE CbreRow(grid[k], k, acc.faq_data, acc.current_section, acc.prov))

\* the mapping and the open section the running script extracts from a grid
Extracted(grid) ==
    LET r == ScanRows(grid, 1, Scanned(<<>>, None, <<>>, <<>>, FALSE))
    IN  [faq_data |-> r.faq_data, current_section |-> r.current_section]

\* C11: in both scripts the step that scans a row whose column 2 is the
\* "Answer" marker and whose column 1 is absent changes neither the open
\* section nor the mapping, prints nothing and raises nothing, whatever its
\* column 0; such a row has no Record in the returned mapping, and the
\* mapping and the open section are those extracted from the grid without
\* that row, so that the Q&A rows after it are stored under the section that
\* was open before it.
C11_UnlabelledHeaderNoOp ==
    /\ [][(script \in Extractors /\ pc = "scan" /\ Len(rows') = Len(rows) + 1
            /\ UnlabelledMarker(rows'[Len(rows')])) =>
              /\ current_section' = current_section
              /\ faq_data' = faq_data
              /\ prov' = prov
              /\ out' = out
              /\ pc' = "scan"]_vars
    /\ [](Returned =>
            \A h \in 1..Len(rows) : UnlabelledMarker(rows[h]) =>
                /\ RecordsFrom(h) = {}
                /\ Extracted(Without(rows, h)) =
                       [faq_data |-> faq_data, current_section |-> current_section]
                /\ \A r \in (h + 1)..Len(rows) : \A p \in RecordsFrom(r) :
                       (\A j \in (h + 1)..(r - 1) : ~LabelledHeader(j)) =>
                           faq_data[p[1]].name = OpenAt(h))

\* a header row without a label and with a digit-only column 0, scanned
\* while a section is open, and after it a Q&A row whose Record is the only
\* one of that section
C11_Witness ==
    /\ Returned
    /\ Len(rows) = 3
    /\ LabelledHeader(1)
    /\ UnlabelledMarker(rows[2]) /\ IsDataRow(rows[2])
    /\ current_section = ResolvedName(rows[1])
    /\ Len(faq_data) = 1
    /\ faq_data[1].name = ResolvedName(rows[1])
    /\ prov[1].items = <<3>>

----------------------------------------------------------------------------
(* C7 *)

\* the INSERT statements the claim expects of a mapping: one for every Record
\* whose answer is non-empty after trimming, in mapping order
RECURSIVE ExpectedOfList(_, _)
ExpectedOfList(section_name, questions) ==
    IF questions = <<>> THEN <<>>
    ELSE (IF Strip(Head(questions).answer) # <<>>
          THEN <<InsertStatement(section_name, Head(questions).number,
                                 escape_sql_string(Head(questions).question),
                                 escape_sql_string(Head(questions).answer))>>
          ELSE <<>>)
         \o ExpectedOfList(section_name, Tail(questions))

RECURSIVE ExpectedInserts(_)
ExpectedInserts(d) ==
    IF d = <<>> THEN <<>>
    ELSE ExpectedOfList(Head(d).name, Head(d).items) \o ExpectedInserts(Tail(d))

\* C7: when the generator has ended, both files are written and the INSERT
\* statements of each are exactly one per Record with a non-empty trimmed
\* answer, in mapping order, whatever the texts contain.
C7_StatementCount ==
    (script = "generate_sql_inserts" /\ pc = "done") =>
        /\ sql_file.written
        /\ safe_file.written
        /\ SelectSeq(sql_file.data, StartsWithInsert) = ExpectedInserts(faq_data)
        /\ SelectSeq(safe_file.data, StartsWithInsert) = ExpectedInserts(faq_data)

----------------------------------------------------------------------------
(* C8 *)

\* decoding of the escapes \\ -> backslash, \' -> quote, \n -> newline,
\* read from the left
RECURSIVE Unescape(_)
Unescape(s) ==
    IF s = <<>> THEN <<>>
    ELSE IF Head(s) = Backslash /\ Len(s) >= 2 /\ s[2] \in {Backslash, Quote, "n"}
    THEN <<(IF s[2] = "n" THEN "\n" ELSE s[2])>> \o Unescape(SubSeq(s, 3, Len(s)))
    ELSE <<Head(s)>> \o Unescape(Tail(s))

\* the number of consecutive backslashes that end just before position i
RECURSIVE BackslashesBefore(_, _)
BackslashesBefore(s, i) ==
    IF i > 1 /\ s[i - 1] = Backslash THEN 1 + BackslashesBefore(s, i - 1) ELSE 0

\* no raw newline, and an odd number of backslashes before every quote
WellEscaped(s) ==
    \A i \in 1..Len(s) :
        /\ s[i] # "\n"
        /\ s[i] = Quote => BackslashesBefore(s, i) % 2 = 1

\* the Records of a mapping, in order
RECURSIVE AllQuestions(_)
AllQuestions(d) ==
    IF d = <<>> THEN <<>> ELSE Head(d).items \o AllQuestions(Tail(d))

IsQuestionEntry(e) == e.kind = "question"

\* C8: the question entries of the generated component are, in order, the
\* Records of the mapping, each question and answer escaped: no raw newline,
\* every quote after an odd number of backslashes, and decoding gives the
\* Record's text back.
C8_JsEscaping ==
    (script = "generate_quick_questions" /\ pc \in {"write", "done"}) =>
        LET emitted == SelectSeq(jsx_content, IsQuestionEntry)
            given == AllQuestions(faq_data)
        IN  /\ Len(emitted) = Len(given)
            /\ \A i \in 1..Len(given) :
                /\ WellEscaped(emitted[i].q) /\ Unescape(emitted[i].q) = given[i].question
                /\ WellEscaped(emitted[i].a) /\ Unescape(emitted[i].a) = given[i].answer

\* a question made of a backslash, a quote and a newline has been emitted,
\* with an answer made of a backslash and the letter n
C8_Witness ==
    /\ script = "generate_quick_questions" /\ pc = "done"
    /\ Len(faq_data) = 1
    /\ faq_data[1].items[1].question = <<Backslash, Quote, "\n">>
    /\ faq_data[1].items[1].answer = <<Backslash, "n">>
    /\ jsx_content[2].q = <<Backslash, Backslash, Backslash, Quote, Backslash, "n">>
    /\ jsx_content[2].a = <<Backslash, Backslash, "n">>

====
